---- MODULE Spec2Model ----
(***************************************************************************)
(* A model of apk_decompiler.py: the DEX decoder (header, string pool,     *)
(* type / field / method / class tables), the method-body walker with its  *)
(* opcode table, and the loop of main() over the DEX files of one APK.     *)
(*                                                                         *)
(* Representation.  A buffer is a sequence of bytes (0..255); the Python   *)
(* offset o is position o+1 of the sequence.  TLC's integers are 32 bits   *)
(* wide and signed, so an unsigned 32-bit field whose value is 2^31 or     *)
(* more is carried as value - 2^32 (0xFFFFFFFF is carried as -1); every    *)
(* comparison of such a field goes through Resolvable, which reads a       *)
(* negative carrier as the large unsigned value it stands for.             *)
(***************************************************************************)
EXTENDS Integers, Sequences, FiniteSets, TLC

VARIABLES
    dex_files,      \* main: the buffers of the DEX files, in the order of the loop
    file,           \* main: the position of the loop in dex_files (1..), past the end when done
    mainpc,         \* main: the statement the main thread is at
    header,         \* main: locals of the try block, lines 370-378
    strings,
    types,
    fields,
    methods,
    classes,
    decompiled,
    cls,            \* main: the position of `for cls in classes`
    string_offsets, \* parse_strings: the string-ID table
    max_workers,    \* parse_strings: the size of the executor's pool
    submitted,      \* parse_strings: tasks handed to the executor so far
    queue,          \* the executor's work queue (string indexes)
    running,        \* the executor's workers: idle, or a task with its outcome
    insns_size,     \* decompile_method_code: locals
    insns_offset,
    pc,
    code,
    outputs,        \* the output files written (lines 384-393)
    errlog,         \* the errors logged by the except clauses (lines 395-400)
    shortReads,     \* history: the files one of whose reads reached past the end
    vdata,          \* read_uleb128 on its own: the buffer handed in
    vstart,         \* read_uleb128 on its own: the offset handed in
    vs,             \* read_uleb128 on its own: the locals of the loop
    pipes           \* two decodes run side by side: the locals of each call chain

tables == <<header, strings, types, fields, methods, classes>>
poolVars == <<string_offsets, max_workers, submitted, queue, running>>
walkVars == <<cls, insns_size, insns_offset, pc, code>>
sinkVars == <<outputs, errlog>>
varintVars == <<vdata, vstart, vs>>
mainVars == <<dex_files, file, mainpc, tables, decompiled, poolVars, walkVars,
              sinkVars, shortReads>>
sideVars == <<varintVars, pipes>>
vars == <<mainVars, varintVars, pipes>>

----------------------------------------------------------------------------
(* Bounds of the model. *)

\* read_uleb128 is entered at offsets 0..MaxPad of its buffer.
MaxPad == 1
\* Longest run of continuation bytes (high bit set) in an adversarial varint.
MaxCont == 6
\* Entries of a generated string pool.
MaxStrings == 2
\* Worker threads of the executor (os.cpu_count() is 1..MaxWorkers).
MaxWorkers == 2
\* Records of a generated class-def table.
MaxClasses == 2
\* Instructions of a generated method body.
MaxInsns == 2
\* DEX files of one APK.
MaxBatch == 2

----------------------------------------------------------------------------
(* Bytes and slices. *)

Min(a, b) == IF a < b THEN a ELSE b

\* x << k on Python's unbounded integers.
ShiftLeft(x, k) == IF x = 0 THEN 0 ELSE x * (2 ^ k)

\* data[a:a+n]: Python clips a slice to the buffer, it never fails.
Slice(data, a, n) ==
    IF a < 0 \/ a >= Len(data) THEN << >>
    ELSE SubSeq(data, a + 1, Min(a + n, Len(data)))

\* k copies of the byte b.
RECURSIVE Rep(_, _)
Rep(b, k) == IF k <= 0 THEN << >> ELSE <<b>> \o Rep(b, k - 1)

----------------------------------------------------------------------------
(* read_uleb128, one iteration of its loop at a time. *)

uleb_start(offset) ==
    [result |-> 0, shift |-> 0, offset |-> offset, status |-> "run"]

\* A plausible slip: the shift grows by a whole byte instead of 7 bits.
uleb_step_shift8(data, s) ==
    IF s.offset < 0 \/ s.offset >= Len(data)
    THEN [s EXCEPT !.status = "IndexError"]
    ELSE LET byte == data[s.offset + 1]
         IN  [result |-> s.result + ShiftLeft(byte % 128, s.shift),
              shift  |-> IF byte >= 128 THEN s.shift + 8 ELSE s.shift,
              offset |-> s.offset + 1,
              status |-> IF byte >= 128 THEN "run" ELSE "ok"]

\* Lines 35-40.  data[offset] raises IndexError past the end of the buffer;
\* result |= (byte & 0x7f) << shift adds the seven bits, which lie above all
\* bits set so far; the loop ends at the first byte with a clear high bit.
\* There is no limit on the number of iterations.
uleb_step(data, s) ==
    IF s.offset < 0 \/ s.offset >= Len(data)
    THEN [s EXCEPT !.status = "IndexError"]
    ELSE LET byte == data[s.offset + 1]
         IN  [result |-> s.result + ShiftLeft(byte % 128, s.shift),
              shift  |-> IF byte >= 128 THEN s.shift + 7 ELSE s.shift,
              offset |-> s.offset + 1,
              status |-> IF byte >= 128 THEN "run" ELSE "ok"]

RECURSIVE uleb_loop(_, _)
uleb_loop(data, s) ==
    IF s.status # "run" THEN s ELSE uleb_loop(data, uleb_step(data, s))

\* The whole call: [result, offset, status], status "ok" or "IndexError".
read_uleb128(data, offset) == uleb_loop(data, uleb_start(offset))

----------------------------------------------------------------------------
(* struct.unpack and list lookups. *)

\* Python's None, and a decoded text (a sequence of code points), as values
\* of one shape.
None == [none |-> TRUE, s |-> << >>]
Str(s) == [none |-> FALSE, s |-> s]

\* '<H' of a 2-byte slice.
LE16(b) == b[1] + 256 * b[2]

\* '<I' of a 4-byte slice; 2^31 and above is carried as value - 2^32.
LE32(b) ==
    b[1] + 256 * b[2] + 65536 * b[3]
      + 16777216 * (IF b[4] >= 128 THEN b[4] - 256 ELSE b[4])

\* A base offset read from the buffer, plus k; a carried (huge) base stays
\* past every buffer.
At(off, k) == IF off < 0 THEN -1 ELSE off + k

\* table[i] succeeds (i is never negative in Python here: a negative
\* carrier is an index of 2^31 or more).
Resolvable(i, table) == i >= 0 /\ i < Len(table)
Lookup(table, i) == table[i + 1]

\* The iterations of `for i in range(size)` that can matter: a table of more
\* entries than the buffer has bytes fails inside the buffer's length.
LoopCount(data, size) ==
    IF size < 0 \/ size > Len(data) THEN Len(data) + 1 ELSE size

\* The error of each iteration i of a table loop over n entries: the record
\* is first unpacked (struct.error on a clipped record), then resolved.
EntryError(short, unresolved) ==
    IF short THEN "struct.error" ELSE IF unresolved THEN "IndexError" ELSE ""

\* The first i of the loop whose iteration raises, or -1.
FirstFailure(status) ==
    IF \E i \in DOMAIN status : status[i] # ""
    THEN CHOOSE i \in DOMAIN status :
            status[i] # "" /\ \A j \in DOMAIN status : j < i => status[j] = ""
    ELSE -1

\* The error a table loop ends with: that of its first failing iteration.
TableError(status) ==
    LET f == FirstFailure(status) IN IF f < 0 THEN "" ELSE status[f]

----------------------------------------------------------------------------
(* read_string. *)

\* bytes.decode('utf-8', errors='replace') on the bytes the inputs use: an
\* ASCII byte is its own code point, a well-formed two-byte sequence is
\* decoded, and any other byte becomes U+FFFD (65533) on its own.  (Lead
\* bytes of three- and four-byte sequences, 0xE0..0xF7, do not occur in the
\* inputs.)
RECURSIVE utf8_decode(_)
utf8_decode(b) ==
    IF b = << >> THEN << >>
    ELSE IF b[1] < 128 THEN <<b[1]>> \o utf8_decode(Tail(b))
    ELSE IF /\ b[1] >= 194 /\ b[1] <= 223
            /\ Len(b) >= 2 /\ b[2] >= 128 /\ b[2] <= 191
         THEN <<(b[1] - 192) * 64 + (b[2] - 128)>> \o utf8_decode(Tail(Tail(b)))
    ELSE <<65533>> \o utf8_decode(Tail(b))

\* Lines 45-47.  The length prefix is read by read_uleb128 (which may raise
\* IndexError); the body is the slice data[offset:offset+length], clipped to
\* the buffer.  The second component of the result, offset + length, is
\* dropped by the only caller (line 77) and is not modelled.
read_string(data, offset) ==
    LET r == read_uleb128(data, offset)
    IN  IF r.status # "ok"
        THEN [err |-> "IndexError", s |-> None]
        ELSE [err |-> "", s |-> Str(utf8_decode(Slice(data, r.offset, r.result)))]

----------------------------------------------------------------------------
(* parse_header. *)

\* b'dex\n'
Magic == <<100, 101, 120, 10>>

\* The fields of the header dict, in the order the dict literal reads them.
HeaderFields ==
    << [name |-> "string_ids_size", off |-> 56],
       [name |-> "string_ids_off",  off |-> 60],
       [name |-> "type_ids_size",   off |-> 64],
       [name |-> "type_ids_off",    off |-> 68],
       [name |-> "field_ids_size",  off |-> 80],
       [name |-> "field_ids_off",   off |-> 84],
       [name |-> "method_ids_size", off |-> 88],
       [name |-> "method_ids_off",  off |-> 92],
       [name |-> "class_defs_size", off |-> 96],
       [name |-> "class_defs_off",  off |-> 100] >>

HeaderNames == { HeaderFields[k].name : k \in DOMAIN HeaderFields }

HeaderOffset(name) ==
    HeaderFields[CHOOSE k \in DOMAIN HeaderFields : HeaderFields[k].name = name].off
NoHeader == [n \in HeaderNames |-> 0]

\* A plausible slip: the magic is not checked.
magic_ok_unchecked(data) == TRUE

\* Line 52-53: magic = data[:8]; magic[:4] == b'dex\n'.
magic_ok(data) == Slice(Slice(data, 0, 8), 0, 4) = Magic

\* Lines 52-66: [err, header].  DexParseError on a wrong magic; struct.error
\* when a field's 4-byte slice is clipped by the end of the buffer.
parse_header(data) ==
    IF ~magic_ok(data)
    THEN [err |-> "DexParseError", header |-> NoHeader]
    ELSE IF \E k \in DOMAIN HeaderFields :
                Len(Slice(data, HeaderFields[k].off, 4)) # 4
    THEN [err |-> "struct.error", header |-> NoHeader]
    ELSE [err |-> "",
          header |-> [n \in HeaderNames |->
                        LE32(Slice(data, HeaderOffset(n), 4))]]

----------------------------------------------------------------------------
(* parse_strings (its sequential part), parse_types, parse_fields,          *)
(* parse_methods, parse_classes.                                            *)

\* Lines 70-73: the string-ID table, [err, offsets].
read_string_offsets(data, h) ==
    LET off  == h.string_ids_off
        size == h.string_ids_size
        Short(i) == Len(Slice(data, At(off, i * 4), 4)) # 4
    IN  IF FirstFailure([i \in 0..(LoopCount(data, size) - 1) |->
                           EntryError(Short(i), FALSE)]) >= 0
        THEN [err |-> "struct.error", offsets |-> << >>]
        ELSE [err |-> "",
              offsets |-> [i \in 1..size |->
                             LE32(Slice(data, At(off, (i - 1) * 4), 4))]]

\* Lines 76-78, the body of one task: the value it stores in strings[idx],
\* or the exception it ends with.
process_string(data, offsets, idx) ==
    read_string(data, offsets[idx + 1])

\* Lines 87-90: [err, v].
parse_types(data, h, ss) ==
    LET off  == h.type_ids_off
        size == h.type_ids_size
        Rec(i) == Slice(data, At(off, i * 4), 4)
        Short(i) == Len(Rec(i)) # 4
        Unresolved(i) == ~Resolvable(LE32(Rec(i)), ss)
        e == TableError([i \in 0..(LoopCount(data, size) - 1) |->
                           EntryError(Short(i), ~Short(i) /\ Unresolved(i))])
    IN  IF e # "" THEN [err |-> e, v |-> << >>]
        ELSE [err |-> "",
              v |-> [i \in 1..size |-> Lookup(ss, LE32(Rec(i - 1)))]]

\* Lines 94-105: [err, v]; a record is '<HHI' (class_idx, type_idx, name_idx).
parse_fields(data, h, ss, ts) ==
    LET off  == h.field_ids_off
        size == h.field_ids_size
        Rec(i) == Slice(data, At(off, i * 8), 8)
        Short(i) == Len(Rec(i)) # 8
        class_idx(i) == LE16(SubSeq(Rec(i), 1, 2))
        type_idx(i)  == LE16(SubSeq(Rec(i), 3, 4))
        name_idx(i)  == LE32(SubSeq(Rec(i), 5, 8))
        Unresolved(i) == \/ ~Resolvable(class_idx(i), ts)
                         \/ ~Resolvable(type_idx(i), ts)
                         \/ ~Resolvable(name_idx(i), ss)
        e == TableError([i \in 0..(LoopCount(data, size) - 1) |->
                           EntryError(Short(i), ~Short(i) /\ Unresolved(i))])
    IN  IF e # "" THEN [err |-> e, v |-> << >>]
        ELSE [err |-> "",
              v |-> [i \in 1..size |->
                       [class |-> Lookup(ts, class_idx(i - 1)),
                        type  |-> Lookup(ts, type_idx(i - 1)),
                        name  |-> Lookup(ss, name_idx(i - 1))]]]

\* Lines 109-120: [err, v]; a record is '<HHI' (class_idx, proto_idx, name_idx).
parse_methods(data, h, ss, ts) ==
    LET off  == h.method_ids_off
        size == h.method_ids_size
        Rec(i) == Slice(data, At(off, i * 8), 8)
        Short(i) == Len(Rec(i)) # 8
        class_idx(i) == LE16(SubSeq(Rec(i), 1, 2))
        proto_idx(i) == LE16(SubSeq(Rec(i), 3, 4))
        name_idx(i)  == LE32(SubSeq(Rec(i), 5, 8))
        Unresolved(i) == \/ ~Resolvable(class_idx(i), ts)
                         \/ ~Resolvable(name_idx(i), ss)
        e == TableError([i \in 0..(LoopCount(data, size) - 1) |->
                           EntryError(Short(i), ~Short(i) /\ Unresolved(i))])
    IN  IF e # "" THEN [err |-> e, v |-> << >>]
        ELSE [err |-> "",
              v |-> [i \in 1..size |->
                       [class     |-> Lookup(ts, class_idx(i - 1)),
                        name      |-> Lookup(ss, name_idx(i - 1)),
                        proto_idx |-> proto_idx(i - 1)]]]

\* 0xFFFFFFFF (line 133, 135), as carried: 2^32 - 1 - 2^32.
NO_INDEX == -1

\* A plausible slip: every index that does not resolve is read as absent.
optional_lookup_lenient(idx, table) ==
    IF Resolvable(idx, table)
    THEN [err |-> "", v |-> Lookup(table, idx)]
    ELSE [err |-> "", v |-> None]

\* Lines 133, 135: table[idx] if idx != 0xFFFFFFFF else None.
optional_lookup(idx, table) ==
    IF idx = NO_INDEX THEN [err |-> "", v |-> None]
    ELSE IF Resolvable(idx, table) THEN [err |-> "", v |-> Lookup(table, idx)]
    ELSE [err |-> "IndexError", v |-> None]

\* The k-th (1..8) '<I' field of a 32-byte class-def record.
ClassField(rec, k) == LE32(SubSeq(rec, 4 * k - 3, 4 * k))

\* Lines 124-137: [err, v]; a record is eight '<I' fields, of which
\* class_idx (1), superclass_idx (3), source_file_idx (5) and class_data_off
\* (7) are used.
parse_classes(data, h, ss, ts) ==
    LET off  == h.class_defs_off
        size == h.class_defs_size
        Rec(i) == Slice(data, At(off, i * 32), 32)
        Short(i) == Len(Rec(i)) # 32
        Unresolved(i) ==
            \/ ~Resolvable(ClassField(Rec(i), 1), ts)
            \/ optional_lookup(ClassField(Rec(i), 3), ts).err # ""
            \/ optional_lookup(ClassField(Rec(i), 5), ss).err # ""
        e == TableError([i \in 0..(LoopCount(data, size) - 1) |->
                           EntryError(Short(i), ~Short(i) /\ Unresolved(i))])
    IN  IF e # "" THEN [err |-> e, v |-> << >>]
        ELSE [err |-> "",
              v |-> [i \in 1..size |->
                       [name        |-> Lookup(ts, ClassField(Rec(i - 1), 1)),
                        superclass  |-> optional_lookup(ClassField(Rec(i - 1), 3), ts).v,
                        data_offset |-> ClassField(Rec(i - 1), 7),
                        source_file |-> optional_lookup(ClassField(Rec(i - 1), 5), ss).v]]]

----------------------------------------------------------------------------
(* OPCODE_MAP (lines 143-296) and the handler `function` (lines 140-141).   *)
(*                                                                          *)
(* An entry keeps what decides the handler's behaviour:                     *)
(*   name    the mnemonic, split at '-' and '/';                            *)
(*   kind    the context the handler's second parameter is written for,     *)
(*           read off the parameter's name: _ (None), val (RawValue),       *)
(*           strings, types, fields, methods;                               *)
(*   use     what the handler does with that parameter: nothing ("none"),   *)
(*           formats it ("fmt"), shifts it ("shl"), indexes it ("index"),   *)
(*           indexes it and takes ["name"] ("name") or ["class"] and        *)
(*           ["name"] ("class_name");                                       *)
(*   sel     the k of args[k] that indexes the parameter (-1: none);        *)
(*   maxArg  the largest k of an args[k] the handler reads (-1: none).      *)

Insn(name, kind, use, sel, maxArg) ==
    [name |-> name, kind |-> kind, use |-> use, sel |-> sel, maxArg |-> maxArg]

OPCODE_MAP ==
       0 :> Insn(<<"nop">>, "None", "none", -1, -1)   \* 0x00 nop
    @@ 14 :> Insn(<<"return", "void">>, "None", "none", -1, -1)   \* 0x0e return-void
    @@ 15 :> Insn(<<"return">>, "None", "none", -1, 0)   \* 0x0f return
    @@ 16 :> Insn(<<"return", "wide">>, "None", "none", -1, 0)   \* 0x10 return-wide
    @@ 17 :> Insn(<<"return", "object">>, "None", "none", -1, 0)   \* 0x11 return-object
    @@ 1 :> Insn(<<"move">>, "None", "none", -1, 1)   \* 0x01 move
    @@ 2 :> Insn(<<"move", "from16">>, "None", "none", -1, 1)   \* 0x02 move/from16
    @@ 3 :> Insn(<<"move", "16">>, "None", "none", -1, 1)   \* 0x03 move/16
    @@ 4 :> Insn(<<"move", "wide">>, "None", "none", -1, 1)   \* 0x04 move-wide
    @@ 5 :> Insn(<<"move", "wide", "from16">>, "None", "none", -1, 1)   \* 0x05 move-wide/from16
    @@ 6 :> Insn(<<"move", "wide", "16">>, "None", "none", -1, 1)   \* 0x06 move-wide/16
    @@ 7 :> Insn(<<"move", "object">>, "None", "none", -1, 1)   \* 0x07 move-object
    @@ 8 :> Insn(<<"move", "object", "from16">>, "None", "none", -1, 1)   \* 0x08 move-object/from16
    @@ 9 :> Insn(<<"move", "object", "16">>, "None", "none", -1, 1)   \* 0x09 move-object/16
    @@ 10 :> Insn(<<"move", "result">>, "None", "none", -1, 0)   \* 0x0a move-result
    @@ 11 :> Insn(<<"move", "result", "wide">>, "None", "none", -1, 0)   \* 0x0b move-result-wide
    @@ 12 :> Insn(<<"move", "result", "object">>, "None", "none", -1, 0)   \* 0x0c move-result-object
    @@ 13 :> Insn(<<"move", "exception">>, "None", "none", -1, 0)   \* 0x0d move-exception
    @@ 18 :> Insn(<<"const", "4">>, "None", "none", -1, 1)   \* 0x12 const/4
    @@ 19 :> Insn(<<"const", "16">>, "RawValue", "fmt", -1, 0)   \* 0x13 const/16
    @@ 20 :> Insn(<<"const">>, "RawValue", "fmt", -1, 0)   \* 0x14 const
    @@ 21 :> Insn(<<"const", "high16">>, "RawValue", "shl", -1, 0)   \* 0x15 const/high16
    @@ 22 :> Insn(<<"const", "wide", "16">>, "RawValue", "fmt", -1, 0)   \* 0x16 const-wide/16
    @@ 23 :> Insn(<<"const", "wide", "32">>, "RawValue", "fmt", -1, 0)   \* 0x17 const-wide/32
    @@ 24 :> Insn(<<"const", "wide">>, "RawValue", "fmt", -1, 0)   \* 0x18 const-wide
    @@ 25 :> Insn(<<"const", "wide", "high16">>, "RawValue", "shl", -1, 0)   \* 0x19 const-wide/high16
    @@ 26 :> Insn(<<"const", "string">>, "Strings", "index", 1, 1)   \* 0x1a const-string
    @@ 27 :> Insn(<<"const", "string", "jumbo">>, "Strings", "index", 1, 1)   \* 0x1b const-string/jumbo
    @@ 28 :> Insn(<<"const", "class">>, "Types", "index", 1, 1)   \* 0x1c const-class
    @@ 82 :> Insn(<<"iget">>, "Fields", "name", 2, 2)   \* 0x52 iget
    @@ 83 :> Insn(<<"iget", "wide">>, "Fields", "name", 2, 2)   \* 0x53 iget-wide
    @@ 84 :> Insn(<<"iget", "object">>, "Fields", "name", 2, 2)   \* 0x54 iget-object
    @@ 85 :> Insn(<<"iget", "boolean">>, "Fields", "name", 2, 2)   \* 0x55 iget-boolean
    @@ 86 :> Insn(<<"iget", "byte">>, "Fields", "name", 2, 2)   \* 0x56 iget-byte
    @@ 87 :> Insn(<<"iget", "char">>, "Fields", "name", 2, 2)   \* 0x57 iget-char
    @@ 88 :> Insn(<<"iget", "short">>, "Fields", "name", 2, 2)   \* 0x58 iget-short
    @@ 89 :> Insn(<<"iput">>, "Fields", "name", 2, 2)   \* 0x59 iput
    @@ 90 :> Insn(<<"iput", "wide">>, "Fields", "name", 2, 2)   \* 0x5a iput-wide
    @@ 91 :> Insn(<<"iput", "object">>, "Fields", "name", 2, 2)   \* 0x5b iput-object
    @@ 92 :> Insn(<<"iput", "boolean">>, "Fields", "name", 2, 2)   \* 0x5c iput-boolean
    @@ 93 :> Insn(<<"iput", "byte">>, "Fields", "name", 2, 2)   \* 0x5d iput-byte
    @@ 94 :> Insn(<<"iput", "char">>, "Fields", "name", 2, 2)   \* 0x5e iput-char
    @@ 95 :> Insn(<<"iput", "short">>, "Fields", "name", 2, 2)   \* 0x5f iput-short
    @@ 96 :> Insn(<<"sget">>, "Fields", "name", 1, 1)   \* 0x60 sget
    @@ 97 :> Insn(<<"sget", "wide">>, "Fields", "name", 1, 1)   \* 0x61 sget-wide
    @@ 98 :> Insn(<<"sget", "object">>, "Fields", "name", 1, 1)   \* 0x62 sget-object
    @@ 99 :> Insn(<<"sget", "boolean">>, "Fields", "name", 1, 1)   \* 0x63 sget-boolean
    @@ 100 :> Insn(<<"sget", "byte">>, "Fields", "name", 1, 1)   \* 0x64 sget-byte
    @@ 101 :> Insn(<<"sget", "char">>, "Fields", "name", 1, 1)   \* 0x65 sget-char
    @@ 102 :> Insn(<<"sget", "short">>, "Fields", "name", 1, 1)   \* 0x66 sget-short
    @@ 103 :> Insn(<<"sput">>, "Fields", "name", 1, 1)   \* 0x67 sput
    @@ 104 :> Insn(<<"sput", "wide">>, "Fields", "name", 1, 1)   \* 0x68 sput-wide
    @@ 105 :> Insn(<<"sput", "object">>, "Fields", "name", 1, 1)   \* 0x69 sput-object
    @@ 106 :> Insn(<<"sput", "boolean">>, "Fields", "name", 1, 1)   \* 0x6a sput-boolean
    @@ 107 :> Insn(<<"sput", "byte">>, "Fields", "name", 1, 1)   \* 0x6b sput-byte
    @@ 108 :> Insn(<<"sput", "char">>, "Fields", "name", 1, 1)   \* 0x6c sput-char
    @@ 109 :> Insn(<<"sput", "short">>, "Fields", "name", 1, 1)   \* 0x6d sput-short
    @@ 110 :> Insn(<<"invoke", "virtual">>, "Methods", "name", 0, 1)   \* 0x6e invoke-virtual
    @@ 111 :> Insn(<<"invoke", "super">>, "Methods", "name", 0, 0)   \* 0x6f invoke-super
    @@ 112 :> Insn(<<"invoke", "direct">>, "Methods", "name", 0, 0)   \* 0x70 invoke-direct
    @@ 113 :> Insn(<<"invoke", "static">>, "Methods", "class_name", 0, 0)   \* 0x71 invoke-static
    @@ 114 :> Insn(<<"invoke", "interface">>, "Methods", "name", 0, 1)   \* 0x72 invoke-interface
    @@ 116 :> Insn(<<"invoke", "virtual", "range">>, "Methods", "name", 0, 1)   \* 0x74 invoke-virtual/range
    @@ 117 :> Insn(<<"invoke", "super", "range">>, "Methods", "name", 0, 0)   \* 0x75 invoke-super/range
    @@ 118 :> Insn(<<"invoke", "direct", "range">>, "Methods", "name", 0, 0)   \* 0x76 invoke-direct/range
    @@ 119 :> Insn(<<"invoke", "static", "range">>, "Methods", "class_name", 0, 0)   \* 0x77 invoke-static/range
    @@ 120 :> Insn(<<"invoke", "interface", "range">>, "Methods", "name", 0, 1)   \* 0x78 invoke-interface/range
    @@ 144 :> Insn(<<"add", "int">>, "None", "none", -1, 2)   \* 0x90 add-int
    @@ 145 :> Insn(<<"sub", "int">>, "None", "none", -1, 2)   \* 0x91 sub-int
    @@ 146 :> Insn(<<"mul", "int">>, "None", "none", -1, 2)   \* 0x92 mul-int
    @@ 147 :> Insn(<<"div", "int">>, "None", "none", -1, 2)   \* 0x93 div-int
    @@ 148 :> Insn(<<"rem", "int">>, "None", "none", -1, 2)   \* 0x94 rem-int
    @@ 149 :> Insn(<<"and", "int">>, "None", "none", -1, 2)   \* 0x95 and-int
    @@ 150 :> Insn(<<"or", "int">>, "None", "none", -1, 2)   \* 0x96 or-int
    @@ 151 :> Insn(<<"xor", "int">>, "None", "none", -1, 2)   \* 0x97 xor-int
    @@ 152 :> Insn(<<"shl", "int">>, "None", "none", -1, 2)   \* 0x98 shl-int
    @@ 153 :> Insn(<<"shr", "int">>, "None", "none", -1, 2)   \* 0x99 shr-int
    @@ 154 :> Insn(<<"ushr", "int">>, "None", "none", -1, 2)   \* 0x9a ushr-int
    @@ 176 :> Insn(<<"add", "int", "2addr">>, "None", "none", -1, 1)   \* 0xb0 add-int/2addr
    @@ 177 :> Insn(<<"sub", "int", "2addr">>, "None", "none", -1, 1)   \* 0xb1 sub-int/2addr
    @@ 178 :> Insn(<<"mul", "int", "2addr">>, "None", "none", -1, 1)   \* 0xb2 mul-int/2addr
    @@ 179 :> Insn(<<"div", "int", "2addr">>, "None", "none", -1, 1)   \* 0xb3 div-int/2addr
    @@ 180 :> Insn(<<"rem", "int", "2addr">>, "None", "none", -1, 1)   \* 0xb4 rem-int/2addr
    @@ 181 :> Insn(<<"and", "int", "2addr">>, "None", "none", -1, 1)   \* 0xb5 and-int/2addr
    @@ 182 :> Insn(<<"or", "int", "2addr">>, "None", "none", -1, 1)   \* 0xb6 or-int/2addr
    @@ 183 :> Insn(<<"xor", "int", "2addr">>, "None", "none", -1, 1)   \* 0xb7 xor-int/2addr
    @@ 184 :> Insn(<<"shl", "int", "2addr">>, "None", "none", -1, 1)   \* 0xb8 shl-int/2addr
    @@ 185 :> Insn(<<"shr", "int", "2addr">>, "None", "none", -1, 1)   \* 0xb9 shr-int/2addr
    @@ 186 :> Insn(<<"ushr", "int", "2addr">>, "None", "none", -1, 1)   \* 0xba ushr-int/2addr
    @@ 208 :> Insn(<<"add", "int", "lit16">>, "RawValue", "fmt", -1, 1)   \* 0xd0 add-int/lit16
    @@ 209 :> Insn(<<"sub", "int", "lit16">>, "RawValue", "fmt", -1, 1)   \* 0xd1 sub-int/lit16
    @@ 210 :> Insn(<<"mul", "int", "lit16">>, "RawValue", "fmt", -1, 1)   \* 0xd2 mul-int/lit16
    @@ 211 :> Insn(<<"div", "int", "lit16">>, "RawValue", "fmt", -1, 1)   \* 0xd3 div-int/lit16
    @@ 212 :> Insn(<<"rem", "int", "lit16">>, "RawValue", "fmt", -1, 1)   \* 0xd4 rem-int/lit16
    @@ 213 :> Insn(<<"and", "int", "lit16">>, "RawValue", "fmt", -1, 1)   \* 0xd5 and-int/lit16
    @@ 214 :> Insn(<<"or", "int", "lit16">>, "RawValue", "fmt", -1, 1)   \* 0xd6 or-int/lit16
    @@ 215 :> Insn(<<"xor", "int", "lit16">>, "RawValue", "fmt", -1, 1)   \* 0xd7 xor-int/lit16
    @@ 216 :> Insn(<<"add", "int", "lit8">>, "RawValue", "fmt", -1, 1)   \* 0xd8 add-int/lit8
    @@ 217 :> Insn(<<"sub", "int", "lit8">>, "RawValue", "fmt", -1, 1)   \* 0xd9 sub-int/lit8
    @@ 218 :> Insn(<<"mul", "int", "lit8">>, "RawValue", "fmt", -1, 1)   \* 0xda mul-int/lit8
    @@ 219 :> Insn(<<"div", "int", "lit8">>, "RawValue", "fmt", -1, 1)   \* 0xdb div-int/lit8
    @@ 220 :> Insn(<<"rem", "int", "lit8">>, "RawValue", "fmt", -1, 1)   \* 0xdc rem-int/lit8
    @@ 221 :> Insn(<<"and", "int", "lit8">>, "RawValue", "fmt", -1, 1)   \* 0xdd and-int/lit8
    @@ 222 :> Insn(<<"or", "int", "lit8">>, "RawValue", "fmt", -1, 1)   \* 0xde or-int/lit8
    @@ 223 :> Insn(<<"xor", "int", "lit8">>, "RawValue", "fmt", -1, 1)   \* 0xdf xor-int/lit8
    @@ 224 :> Insn(<<"shl", "int", "lit8">>, "RawValue", "fmt", -1, 1)   \* 0xe0 shl-int/lit8
    @@ 225 :> Insn(<<"shr", "int", "lit8">>, "RawValue", "fmt", -1, 1)   \* 0xe1 shr-int/lit8
    @@ 226 :> Insn(<<"ushr", "int", "lit8">>, "RawValue", "fmt", -1, 1)   \* 0xe2 ushr-int/lit8
    @@ 45 :> Insn(<<"cmpl", "float">>, "None", "none", -1, 2)   \* 0x2d cmpl-float
    @@ 46 :> Insn(<<"cmpg", "float">>, "None", "none", -1, 2)   \* 0x2e cmpg-float
    @@ 47 :> Insn(<<"cmpl", "double">>, "None", "none", -1, 2)   \* 0x2f cmpl-double
    @@ 48 :> Insn(<<"cmpg", "double">>, "None", "none", -1, 2)   \* 0x30 cmpg-double
    @@ 49 :> Insn(<<"cmp", "long">>, "None", "none", -1, 2)   \* 0x31 cmp-long
    @@ 50 :> Insn(<<"if", "eq">>, "None", "none", -1, 2)   \* 0x32 if-eq
    @@ 51 :> Insn(<<"if", "ne">>, "None", "none", -1, 2)   \* 0x33 if-ne
    @@ 52 :> Insn(<<"if", "lt">>, "None", "none", -1, 2)   \* 0x34 if-lt
    @@ 53 :> Insn(<<"if", "ge">>, "None", "none", -1, 2)   \* 0x35 if-ge
    @@ 54 :> Insn(<<"if", "gt">>, "None", "none", -1, 2)   \* 0x36 if-gt
    @@ 55 :> Insn(<<"if", "le">>, "None", "none", -1, 2)   \* 0x37 if-le
    @@ 56 :> Insn(<<"if", "eqz">>, "None", "none", -1, 1)   \* 0x38 if-eqz
    @@ 57 :> Insn(<<"if", "nez">>, "None", "none", -1, 1)   \* 0x39 if-nez
    @@ 58 :> Insn(<<"if", "ltz">>, "None", "none", -1, 1)   \* 0x3a if-ltz
    @@ 59 :> Insn(<<"if", "gez">>, "None", "none", -1, 1)   \* 0x3b if-gez
    @@ 60 :> Insn(<<"if", "gtz">>, "None", "none", -1, 1)   \* 0x3c if-gtz
    @@ 61 :> Insn(<<"if", "lez">>, "None", "none", -1, 1)   \* 0x3d if-lez
    @@ 40 :> Insn(<<"goto">>, "None", "none", -1, 0)   \* 0x28 goto
    @@ 41 :> Insn(<<"goto", "16">>, "None", "none", -1, 0)   \* 0x29 goto/16
    @@ 42 :> Insn(<<"goto", "32">>, "None", "none", -1, 0)   \* 0x2a goto/32
    @@ 68 :> Insn(<<"aget">>, "None", "none", -1, 2)   \* 0x44 aget
    @@ 69 :> Insn(<<"aget", "wide">>, "None", "none", -1, 2)   \* 0x45 aget-wide
    @@ 70 :> Insn(<<"aget", "object">>, "None", "none", -1, 2)   \* 0x46 aget-object
    @@ 71 :> Insn(<<"aget", "boolean">>, "None", "none", -1, 2)   \* 0x47 aget-boolean
    @@ 72 :> Insn(<<"aget", "byte">>, "None", "none", -1, 2)   \* 0x48 aget-byte
    @@ 73 :> Insn(<<"aget", "char">>, "None", "none", -1, 2)   \* 0x49 aget-char
    @@ 74 :> Insn(<<"aget", "short">>, "None", "none", -1, 2)   \* 0x4a aget-short
    @@ 75 :> Insn(<<"aput">>, "None", "none", -1, 2)   \* 0x4b aput
    @@ 76 :> Insn(<<"aput", "wide">>, "None", "none", -1, 2)   \* 0x4c aput-wide
    @@ 77 :> Insn(<<"aput", "object">>, "None", "none", -1, 2)   \* 0x4d aput-object
    @@ 78 :> Insn(<<"aput", "boolean">>, "None", "none", -1, 2)   \* 0x4e aput-boolean
    @@ 79 :> Insn(<<"aput", "byte">>, "None", "none", -1, 2)   \* 0x4f aput-byte
    @@ 80 :> Insn(<<"aput", "char">>, "None", "none", -1, 2)   \* 0x50 aput-char
    @@ 81 :> Insn(<<"aput", "short">>, "None", "none", -1, 2)   \* 0x51 aput-short
    @@ 34 :> Insn(<<"new", "instance">>, "Types", "index", 1, 1)   \* 0x22 new-instance
    @@ 35 :> Insn(<<"new", "array">>, "Types", "index", 2, 2)   \* 0x23 new-array
    @@ 32 :> Insn(<<"instance", "of">>, "Types", "index", 2, 2)   \* 0x20 instance-of
    @@ 33 :> Insn(<<"check", "cast">>, "Types", "index", 1, 1)   \* 0x21 check-cast
    @@ 29 :> Insn(<<"monitor", "enter">>, "None", "none", -1, 0)   \* 0x1d monitor-enter
    @@ 30 :> Insn(<<"monitor", "exit">>, "None", "none", -1, -1)   \* 0x1e monitor-exit
    @@ 39 :> Insn(<<"throw">>, "None", "none", -1, 0)   \* 0x27 throw
    @@ 38 :> Insn(<<"fill", "array", "data">>, "None", "none", -1, -1)   \* 0x26 fill-array-data
    @@ 37 :> Insn(<<"filled", "new", "array">>, "Types", "index", 0, 0)   \* 0x25 filled-new-array
    @@ 36 :> Insn(<<"filled", "new", "array", "range">>, "Types", "index", 0, 0)   \* 0x24 filled-new-array/range

\* 'const-string' in name (line 315): the two words, adjacent, in this order.
has_const_string(name) ==
    \E k \in 1..(Len(name) - 1) : name[k] = "const" /\ name[k + 1] = "string"

\* Line 315: strings if 'const-string' in name else methods.
context_tag(entry) ==
    IF has_const_string(entry.name) THEN "Strings" ELSE "Methods"

\* One rendered line.  The text of a line is fixed by the opcode, the operand
\* byte and the table handed to the handler, so the line keeps those; the
\* placeholder of an unknown opcode (line 309) keeps the opcode value.
Line(op, operand, ctx) ==
    [unknown |-> FALSE, op |-> op, operand |-> operand, ctx |-> ctx]
Placeholder(opcode) ==
    [unknown |-> TRUE, op |-> opcode, operand |-> 0, ctx |-> ""]

\* The handler called with args = (opcode, operand) and the table `table`
\* tagged `tag`: the exception it raises, or "".  args has two items, so
\* args[2] raises IndexError; a list cannot be shifted (TypeError); an index
\* past the table raises IndexError; ["name"] of a string or of None raises
\* TypeError.
handler_error(entry, args, tag, table) ==
    IF entry.maxArg >= 2 THEN "IndexError"
    ELSE IF entry.use = "shl" THEN "TypeError"
    ELSE IF entry.use \in {"index", "name", "class_name"}
            /\ ~Resolvable(args[entry.sel + 1], table) THEN "IndexError"
    ELSE IF entry.use \in {"name", "class_name"} /\ tag # "Methods" THEN "TypeError"
    ELSE ""

----------------------------------------------------------------------------
(* decompile_method_code. *)

\* Lines 300-305, offset # 0: [err, insns_size, insns_offset].  The prologue
\* is '<HHHHII'; insns_size is its last field.
method_prologue(data, offset) ==
    LET p == Slice(data, offset, 16)
    IN  IF Len(p) # 16
        THEN [err |-> "struct.error", insns_size |-> 0, insns_offset |-> 0]
        ELSE [err |-> "", insns_size |-> LE32(SubSeq(p, 13, 16)),
              insns_offset |-> offset + 16]

\* Line 306: pc < insns_size * 2 (pc is even).
walk_more(pc_, insns_size_) == insns_size_ < 0 \/ pc_ \div 2 < insns_size_

\* A plausible slip: an unknown opcode is skipped as one byte.
unknown_opcode_one_byte(pc_, code_, opcode) ==
    [err |-> "", pc |-> pc_ + 1, code |-> Append(code_, Placeholder(opcode))]

\* Lines 309-311.
unknown_opcode(pc_, code_, opcode) ==
    [err |-> "", pc |-> pc_ + 2, code |-> Append(code_, Placeholder(opcode))]

\* Lines 312-315.
known_opcode(data, insns_offset_, pc_, code_, opcode, strings_, methods_) ==
    LET entry == OPCODE_MAP[opcode]
        args  == Slice(data, insns_offset_ + pc_, 2)
        tag   == context_tag(entry)
        table == IF tag = "Strings" THEN strings_ ELSE methods_
    IN  IF Len(args) # 2
        THEN [err |-> "struct.error", pc |-> pc_, code |-> code_]
        ELSE IF handler_error(entry, args, tag, table) # ""
        THEN [err |-> handler_error(entry, args, tag, table),
              pc |-> pc_ + 2, code |-> code_]
        ELSE [err |-> "", pc |-> pc_ + 2,
              code |-> Append(code_, Line(opcode, args[2], tag))]

\* Lines 307-315, one iteration of the loop: [err, pc, code].
walk_step(data, insns_offset_, pc_, code_, strings_, methods_) ==
    IF insns_offset_ + pc_ >= Len(data)
    THEN [err |-> "IndexError", pc |-> pc_, code |-> code_]
    ELSE LET opcode == data[insns_offset_ + pc_ + 1]
         IN  IF opcode \notin DOMAIN OPCODE_MAP
             THEN unknown_opcode(pc_, code_, opcode)
             ELSE known_opcode(data, insns_offset_, pc_, code_, opcode,
                               strings_, methods_)

\* decompiled[name] = code (line 381) on a dict kept as the sequence of its
\* items in insertion order: an existing key keeps its place and takes the
\* new value.
dict_set(d, key, value) ==
    IF \E k \in DOMAIN d : d[k].name = key
    THEN [k \in DOMAIN d |-> IF d[k].name = key
                             THEN [name |-> key, lines |-> value] ELSE d[k]]
    ELSE Append(d, [name |-> key, lines |-> value])

----------------------------------------------------------------------------
(* The input buffers: DEX files laid out as the decoder reads them.  The    *)
(* header takes 112 bytes; the string-ID, type-ID, field-ID, method-ID and  *)
(* class-def tables follow in this order, then one code item (a 16-byte     *)
(* prologue and the instructions), then the string data, last, so that a    *)
(* malformed last string runs into the end of the buffer.                   *)

Bytes16(v) == <<v % 256, v \div 256>>

\* The four bytes of '<I' for a carried value (the inverse of LE32).
Bytes32(v) ==
    LET u == IF v < 0 THEN v + 2147483647 + 1 ELSE v
    IN  <<u % 256, (u \div 256) % 256, (u \div 65536) % 256,
          (u \div 16777216) + (IF v < 0 THEN 128 ELSE 0)>>

RECURSIVE Concat(_)
Concat(seqs) == IF seqs = << >> THEN << >> ELSE Head(seqs) \o Concat(Tail(seqs))

SeqsUpTo(S, n) == UNION { [1..k -> S] : k \in 0..n }

\* b'dex\n035\0'
DexMagic == Magic \o <<48, 51, 53, 0>>

MkDex(p) ==
    LET ns == Len(p.strs)
        nt == Len(p.type_ids)
        nf == Len(p.fields)
        nm == Len(p.methods)
        nc == Len(p.classes)
        string_ids_off == 112
        type_ids_off   == string_ids_off + 4 * ns
        field_ids_off  == type_ids_off + 4 * nt
        method_ids_off == field_ids_off + 8 * nf
        class_defs_off == method_ids_off + 8 * nm
        code_off       == class_defs_off + 32 * nc
        insn_bytes     == Concat(p.insns)
        str_data_off   == code_off + 16 + Len(insn_bytes)
        str_off(i)     == str_data_off + Len(Concat(SubSeq(p.strs, 1, i - 1)))
        total          == str_data_off + Len(Concat(p.strs))
        data_off(c)    == CASE c.code = "none" -> 0
                            [] c.code = "body" -> code_off
                            [] c.code = "tail" -> total - 8
                            [] OTHER           -> total + 4
    IN  p.magic \o Rep(0, 48)
        \o Bytes32(ns) \o Bytes32(string_ids_off)
        \o Bytes32(nt) \o Bytes32(type_ids_off)
        \o Rep(0, 8)
        \o Bytes32(nf) \o Bytes32(field_ids_off)
        \o Bytes32(nm) \o Bytes32(method_ids_off)
        \o Bytes32(nc) \o Bytes32(class_defs_off)
        \o Rep(0, 8)
        \o Concat([i \in 1..ns |-> Bytes32(str_off(i))])
        \o Concat([i \in 1..nt |-> Bytes32(p.type_ids[i])])
        \o Concat([i \in 1..nf |-> Bytes16(p.fields[i][1]) \o Bytes16(p.fields[i][2])
                                     \o Bytes32(p.fields[i][3])])
        \o Concat([i \in 1..nm |-> Bytes16(p.methods[i][1]) \o Bytes16(p.methods[i][2])
                                     \o Bytes32(p.methods[i][3])])
        \o Concat([i \in 1..nc |->
                     Bytes32(p.classes[i].class_idx) \o Rep(0, 4)
                     \o Bytes32(p.classes[i].superclass_idx) \o Rep(0, 4)
                     \o Bytes32(p.classes[i].source_file_idx) \o Rep(0, 4)
                     \o Bytes32(data_off(p.classes[i])) \o Rep(0, 4)])
        \o Rep(0, 12) \o Bytes32(p.insns_size) \o insn_bytes
        \o Concat(p.strs)

\* String data items: a length prefix and a body.
StrA      == <<1, 65>>              \* "A"
StrBC     == <<2, 66, 67>>          \* "BC"
StrAccent == <<3, 195, 169, 255>>   \* e-acute, then a byte that is not UTF-8
StrLong   == <<5, 68>>              \* declares 5 bytes, holds 1
StrOpen   == <<128>>                \* a length prefix that never ends
StrItems  == {StrA, StrBC, StrAccent, StrLong, StrOpen}

\* Class-def records.
Cls(c, sup, src, body) ==
    [class_idx |-> c, superclass_idx |-> sup, source_file_idx |-> src, code |-> body]

ClassRecs ==
    { Cls(0, NO_INDEX, NO_INDEX, "none"),
      Cls(1, 0, 1, "none"),
      Cls(0, 1, NO_INDEX, "body"),
      Cls(1, 2, NO_INDEX, "none"),          \* superclass past the type pool
      Cls(1, -2, 0, "none"),                \* superclass 0xFFFFFFFE
      Cls(0, NO_INDEX, 2, "none"),          \* source file past the string pool
      Cls(2, NO_INDEX, NO_INDEX, "none"),   \* class index past the type pool
      Cls(1, NO_INDEX, 0, "tail"),          \* a prologue clipped by the end
      Cls(1, NO_INDEX, 0, "past") }         \* a code offset past the end

\* Instructions, as (opcode, operand) byte pairs.
Insns ==
    { <<14, 0>>,     \* return-void
      <<18, 1>>,     \* const/4
      <<19, 0>>,     \* const/16             (val)
      <<21, 0>>,     \* const/high16         (val << 16)
      <<26, 0>>,     \* const-string, string 0
      <<26, 7>>,     \* const-string, no such string
      <<28, 0>>,     \* const-class          (types[args[1]])
      <<28, 3>>,     \* const-class, operand past every table
      <<82, 0>>,     \* iget                 (fields[args[2]])
      <<96, 0>>,     \* sget                 (fields[args[1]])
      <<110, 0>>,    \* invoke-virtual       (methods[args[0]])
      <<144, 0>>,    \* add-int              (args[2])
      <<62, 0>>,     \* 0x3e, not in OPCODE_MAP
      <<255, 1>> }   \* 0xff, not in OPCODE_MAP

BaseParams ==
    [magic |-> DexMagic, strs |-> <<StrA, StrBC>>, type_ids |-> <<0, 1>>,
     fields |-> << >>, methods |-> << >>, classes |-> << >>,
     insns |-> << >>, insns_size |-> 0]

\* A well-formed file: two strings, two types, a field, a method, a class
\* with a three-instruction body and a class without code.
GoodParams ==
    [BaseParams EXCEPT !.fields = << <<0, 1, 0>> >>,
                       !.methods = << <<0, 0, 1>> >>,
                       !.classes = << Cls(0, NO_INDEX, NO_INDEX, "body"), Cls(1, 0, 1, "none") >>,
                       !.insns = << <<26, 0>>, <<255, 1>>, <<14, 0>> >>,
                       !.insns_size = 3]
GoodDex == MkDex(GoodParams)

\* Every prefix of the well-formed file.
TruncatedFiles == { SubSeq(GoodDex, 1, n) : n \in 0..Len(GoodDex) }

\* The well-formed file with one of its first five bytes changed.
MagicFiles ==
    { [GoodDex EXCEPT ![k] = 0] : k \in 1..5 }

\* String pools of up to MaxStrings entries, well-formed or not.
StringFiles ==
    { MkDex([BaseParams EXCEPT !.strs = s, !.type_ids = << >>]) :
        s \in SeqsUpTo(StrItems, MaxStrings) }

\* Type pools over string indexes that resolve (0, 1) or do not (2, 2^32-1).
TypeFiles ==
    { MkDex([BaseParams EXCEPT !.type_ids = t]) :
        t \in SeqsUpTo({0, 1, 2, NO_INDEX}, 2) }

\* Field and method tables: (class, type or proto, name) index triples.
RefRecs == { <<0, 1, 0>>, <<1, 0, 1>>, <<2, 0, 0>>, <<0, 2, 0>>, <<0, 0, 2>>, <<0, 0, NO_INDEX>> }
RefFiles ==
    { MkDex([BaseParams EXCEPT !.fields = f, !.methods = m]) :
        f \in SeqsUpTo(RefRecs, 1), m \in SeqsUpTo(RefRecs, 1) }

\* Class tables of up to MaxClasses records (the body, where a record has
\* one, is a return-void followed by an unknown opcode).
ClassFiles ==
    { MkDex([BaseParams EXCEPT !.classes = c,
                               !.insns = << <<14, 0>>, <<62, 0>> >>,
                               !.insns_size = 2]) :
        c \in SeqsUpTo(ClassRecs, MaxClasses) }

\* Method bodies of up to MaxInsns instructions; the declared count is the
\* number of instructions present, or one more.
CodeFiles ==
    { MkDex([BaseParams EXCEPT !.methods = << <<0, 0, 1>> >>,
                               !.classes = << Cls(0, NO_INDEX, NO_INDEX, "body") >>,
                               !.insns = i,
                               !.insns_size = Len(i) + extra]) :
        i \in SeqsUpTo(Insns, MaxInsns), extra \in {0, 1} }

SingleFiles ==
    TruncatedFiles \cup MagicFiles \cup StringFiles \cup TypeFiles
      \cup RefFiles \cup ClassFiles \cup CodeFiles

\* The files that make up the batches of several files.
BatchFiles ==
    { GoodDex,
      [GoodDex EXCEPT ![1] = 0],
      SubSeq(GoodDex, 1, 100),
      MkDex([BaseParams EXCEPT !.strs = <<StrA, StrLong>>,
                               !.classes = << Cls(0, NO_INDEX, NO_INDEX, "none") >>]),
      MkDex([BaseParams EXCEPT !.classes = << Cls(1, 2, NO_INDEX, "none") >>]) }

Batches ==
    { <<d>> : d \in SingleFiles }
      \cup UNION { [1..k -> BatchFiles] : k \in 2..MaxBatch }

----------------------------------------------------------------------------
(* main(), lines 364-400: the loop over the DEX files.                      *)

\* The buffer of the file being processed (lines 366-367).
Data == dex_files[file]

Idle == [busy |-> FALSE, idx |-> 0, err |-> "", s |-> None]

\* Lines 395-400: where the loop goes after logging an exception (continue).
\* A plausible slip: the first failing file ends the run.
after_except_stop(file_, n) == n + 1

after_except(file_, n) == file_ + 1

\* Both except clauses: the error is logged with the file's name, no output
\* file is written, and the loop goes on.  `at` is the function that raised.
\* The locals of the functions that were running are gone.
Raise(exc, at) ==
    /\ errlog' = Append(errlog, [id |-> file, exc |-> exc, at |-> at])
    /\ file' = after_except(file, Len(dex_files))
    /\ mainpc' = "parse_header"
    /\ string_offsets' = << >>
    /\ max_workers' = 0
    /\ submitted' = 0
    /\ queue' = << >>
    /\ running' = << >>
    /\ cls' = 0
    /\ insns_size' = 0
    /\ insns_offset' = 0
    /\ pc' = 0
    /\ code' = << >>
    /\ UNCHANGED <<dex_files, outputs>>

\* A read of the current file reached past its end.
NoteShort(cond) ==
    shortReads' = IF cond THEN shortReads \cup {file} ELSE shortReads

Init ==
    /\ dex_files \in Batches
    /\ file = 1
    /\ mainpc = "parse_header"
    /\ header = NoHeader
    /\ strings = << >>
    /\ types = << >>
    /\ fields = << >>
    /\ methods = << >>
    /\ classes = << >>
    /\ decompiled = << >>
    /\ cls = 0
    /\ string_offsets = << >>
    /\ max_workers = 0
    /\ submitted = 0
    /\ queue = << >>
    /\ running = << >>
    /\ insns_size = 0
    /\ insns_offset = 0
    /\ pc = 0
    /\ code = << >>
    /\ outputs = << >>
    /\ errlog = << >>
    /\ shortReads = {}
    /\ vdata = << >>
    /\ vstart = 0
    /\ vs = uleb_start(0)
    /\ pipes = << >>

Running == file <= Len(dex_files)

\* Line 370.
ParseHeader ==
    /\ Running /\ mainpc = "parse_header"
    /\ LET r == parse_header(Data)
       IN  /\ NoteShort(r.err = "struct.error")
           /\ IF r.err # ""
              THEN /\ Raise(r.err, "parse_header")
                   /\ UNCHANGED <<header, strings, types, fields, methods,
                                  classes, decompiled>>
              ELSE /\ header' = r.header
                   /\ mainpc' = "parse_strings"
                   /\ UNCHANGED <<dex_files, file, strings, types, fields, methods,
                                  classes, decompiled, poolVars, walkVars, sinkVars>>
    /\ UNCHANGED sideVars

\* Lines 70-74 and the entry of the with block (line 80): the string-ID table
\* is read, strings is [None] * size, and the executor is made with
\* os.cpu_count() or 4 workers, a positive number fixed by the machine.
ParseStringsEnter ==
    /\ Running /\ mainpc = "parse_strings"
    /\ LET r == read_string_offsets(Data, header)
       IN  /\ NoteShort(r.err = "struct.error")
           /\ IF r.err # ""
              THEN /\ Raise(r.err, "parse_strings")
                   /\ UNCHANGED strings
              ELSE /\ string_offsets' = r.offsets
                   /\ strings' = [i \in 1..Len(r.offsets) |-> None]
                   /\ \E n \in 1..MaxWorkers :
                        /\ max_workers' = n
                        /\ running' = [w \in 1..n |-> Idle]
                   /\ submitted' = 0
                   /\ queue' = << >>
                   /\ mainpc' = "map"
                   /\ UNCHANGED <<dex_files, file, walkVars, sinkVars>>
    /\ UNCHANGED <<header, types, fields, methods, classes, decompiled, sideVars>>

\* Line 81, executor.map: one task per index is put on the work queue, in
\* index order; workers may start on the first tasks meanwhile.
Submit ==
    /\ Running /\ mainpc = "map"
    /\ submitted < Len(string_offsets)
    /\ queue' = Append(queue, submitted)
    /\ submitted' = submitted + 1
    /\ UNCHANGED <<dex_files, file, mainpc, tables, decompiled, string_offsets,
                   max_workers, running, walkVars, sinkVars, shortReads, sideVars>>

\* A read_string call reads past the end of the buffer: in its length
\* prefix, or in its body.
string_read_is_short(data, offset) ==
    LET r == read_uleb128(data, offset)
    IN  r.status # "ok" \/ r.result > Len(data) - r.offset

\* A worker thread takes the oldest task of the queue and runs line 77.
TaskRun(w) ==
    /\ w \in DOMAIN running
    /\ ~running[w].busy
    /\ queue # << >>
    /\ LET idx == Head(queue)
           r   == process_string(Data, string_offsets, idx)
       IN  /\ running' = [running EXCEPT ![w] =
                            [busy |-> TRUE, idx |-> idx, err |-> r.err, s |-> r.s]]
           /\ NoteShort(string_read_is_short(Data, string_offsets[idx + 1]))
    /\ queue' = Tail(queue)
    /\ UNCHANGED <<dex_files, file, mainpc, tables, decompiled, string_offsets,
                   max_workers, submitted, walkVars, sinkVars, sideVars>>

\* Line 78: the task stores its string in its slot and ends.
TaskStore(w) ==
    /\ w \in DOMAIN running
    /\ running[w].busy /\ running[w].err = ""
    /\ strings' = [strings EXCEPT ![running[w].idx + 1] = running[w].s]
    /\ running' = [running EXCEPT ![w] = Idle]
    /\ UNCHANGED <<dex_files, file, mainpc, header, types, fields, methods, classes,
                   decompiled, string_offsets, max_workers, submitted, queue,
                   walkVars, sinkVars, shortReads, sideVars>>

\* Line 77 raised: the exception is kept in the task's future.  Nothing ever
\* asks the future for its result (the iterator that executor.map returns is
\* dropped, line 81), so the exception goes nowhere and the slot stays None.
TaskRaise(w) ==
    /\ w \in DOMAIN running
    /\ running[w].busy /\ running[w].err # ""
    /\ running' = [running EXCEPT ![w] = Idle]
    /\ UNCHANGED <<dex_files, file, mainpc, tables, decompiled, string_offsets,
                   max_workers, submitted, queue, walkVars, sinkVars, shortReads,
                   sideVars>>

\* A plausible slip: the executor is shut down without waiting
\* (shutdown(wait=False), or no with block).
pool_joined_nowait(submitted_, n, queue_, running_) ==
    submitted_ = n

\* The exit of the with block (line 80-81) is executor.shutdown(wait=True):
\* every task has been submitted, the queue is drained, every worker is done.
pool_joined(submitted_, n, queue_, running_) ==
    /\ submitted_ = n
    /\ queue_ = << >>
    /\ \A w \in DOMAIN running_ : ~running_[w].busy

\* Line 83: the with block is left and parse_strings is at `return strings`.
ParseStringsReturn ==
    /\ Running /\ mainpc = "map"
    /\ pool_joined(submitted, Len(string_offsets), queue, running)
    /\ mainpc' = "parse_types"
    /\ UNCHANGED <<dex_files, file, tables, decompiled, poolVars, walkVars,
                   sinkVars, shortReads, sideVars>>

\* Lines 371-372: strings is bound to what parse_strings returned (its frame
\* and its executor are gone), and parse_types runs.
ParseTypes ==
    /\ Running /\ mainpc = "parse_types"
    /\ LET r == parse_types(Data, header, strings)
       IN  /\ NoteShort(r.err = "struct.error")
           /\ IF r.err # ""
              THEN Raise(r.err, "parse_types") /\ UNCHANGED types
              ELSE /\ types' = r.v
                   /\ mainpc' = "parse_fields"
                   /\ string_offsets' = << >>
                   /\ max_workers' = 0
                   /\ submitted' = 0
                   /\ queue' = << >>
                   /\ running' = << >>
                   /\ UNCHANGED <<dex_files, file, walkVars, sinkVars>>
    /\ UNCHANGED <<header, strings, fields, methods, classes, decompiled, sideVars>>

\* Line 373.
ParseFields ==
    /\ Running /\ mainpc = "parse_fields"
    /\ LET r == parse_fields(Data, header, strings, types)
       IN  /\ NoteShort(r.err = "struct.error")
           /\ IF r.err # ""
              THEN Raise(r.err, "parse_fields") /\ UNCHANGED fields
              ELSE /\ fields' = r.v
                   /\ mainpc' = "parse_methods"
                   /\ UNCHANGED <<dex_files, file, poolVars, walkVars, sinkVars>>
    /\ UNCHANGED <<header, strings, types, methods, classes, decompiled, sideVars>>

\* Line 374.
ParseMethods ==
    /\ Running /\ mainpc = "parse_methods"
    /\ LET r == parse_methods(Data, header, strings, types)
       IN  /\ NoteShort(r.err = "struct.error")
           /\ IF r.err # ""
              THEN Raise(r.err, "parse_methods") /\ UNCHANGED methods
              ELSE /\ methods' = r.v
                   /\ mainpc' = "parse_classes"
                   /\ UNCHANGED <<dex_files, file, poolVars, walkVars, sinkVars>>
    /\ UNCHANGED <<header, strings, types, fields, classes, decompiled, sideVars>>

\* Lines 375 and 378: classes is decoded, decompiled = {}, and the loop over
\* the classes starts.
ParseClasses ==
    /\ Running /\ mainpc = "parse_classes"
    /\ LET r == parse_classes(Data, header, strings, types)
       IN  /\ NoteShort(r.err = "struct.error")
           /\ IF r.err # ""
              THEN Raise(r.err, "parse_classes") /\ UNCHANGED <<classes, decompiled>>
              ELSE /\ classes' = r.v
                   /\ decompiled' = << >>
                   /\ cls' = 1
                   /\ mainpc' = "decompile"
                   /\ UNCHANGED <<dex_files, file, poolVars, insns_size,
                                  insns_offset, pc, code, sinkVars>>
    /\ UNCHANGED <<header, strings, types, fields, methods, sideVars>>

\* Lines 379-381 with lines 300-301: a class whose data_offset is 0 gets the
\* empty list.
MethodSkip ==
    /\ Running /\ mainpc = "decompile"
    /\ cls <= Len(classes)
    /\ classes[cls].data_offset = 0
    /\ decompiled' = dict_set(decompiled, classes[cls].name, << >>)
    /\ cls' = cls + 1
    /\ UNCHANGED <<dex_files, file, mainpc, tables, poolVars, insns_size,
                   insns_offset, pc, code, sinkVars, shortReads, sideVars>>

\* Lines 379-380 with lines 302-305: the prologue is read, code = [], pc = 0.
MethodEnter ==
    /\ Running /\ mainpc = "decompile"
    /\ cls <= Len(classes)
    /\ classes[cls].data_offset # 0
    /\ LET r == method_prologue(Data, classes[cls].data_offset)
       IN  /\ NoteShort(r.err = "struct.error")
           /\ IF r.err # ""
              THEN Raise(r.err, "decompile_method_code")
              ELSE /\ insns_size' = r.insns_size
                   /\ insns_offset' = r.insns_offset
                   /\ pc' = 0
                   /\ code' = << >>
                   /\ mainpc' = "walk"
                   /\ UNCHANGED <<dex_files, file, poolVars, cls, sinkVars>>
    /\ UNCHANGED <<tables, decompiled, sideVars>>

\* An iteration of the walk reads past the end of the buffer: the opcode
\* byte, or the two bytes of args.
walk_read_is_short(data, insns_offset_, pc_) ==
    \/ insns_offset_ + pc_ >= Len(data)
    \/ /\ data[insns_offset_ + pc_ + 1] \in DOMAIN OPCODE_MAP
       /\ insns_offset_ + pc_ + 2 > Len(data)

\* Lines 306-315: one iteration of the while loop.
WalkStep ==
    /\ Running /\ mainpc = "walk"
    /\ walk_more(pc, insns_size)
    /\ LET r == walk_step(Data, insns_offset, pc, code, strings, methods)
       IN  /\ NoteShort(walk_read_is_short(Data, insns_offset, pc))
           /\ IF r.err # ""
              THEN Raise(r.err, "decompile_method_code")
              ELSE /\ pc' = r.pc
                   /\ code' = r.code
                   /\ UNCHANGED <<dex_files, file, mainpc, poolVars, cls,
                                  insns_size, insns_offset, sinkVars>>
    /\ UNCHANGED <<tables, decompiled, sideVars>>

\* Lines 316 and 381: the loop is over, code is returned and stored under the
\* class's name.
WalkReturn ==
    /\ Running /\ mainpc = "walk"
    /\ ~walk_more(pc, insns_size)
    /\ decompiled' = dict_set(decompiled, classes[cls].name, code)
    /\ cls' = cls + 1
    /\ mainpc' = "decompile"
    /\ insns_size' = 0
    /\ insns_offset' = 0
    /\ pc' = 0
    /\ code' = << >>
    /\ UNCHANGED <<dex_files, file, tables, poolVars, sinkVars, shortReads, sideVars>>

\* Lines 384-393: after the last class the items of decompiled are written to
\* the file's own output file, and the loop goes to the next file.
WriteOutput ==
    /\ Running /\ mainpc = "decompile"
    /\ cls > Len(classes)
    /\ outputs' = Append(outputs, [id |-> file, result |-> decompiled])
    /\ file' = file + 1
    /\ mainpc' = "parse_header"
    /\ cls' = 0
    /\ UNCHANGED <<dex_files, tables, decompiled, poolVars, insns_size,
                   insns_offset, pc, code, errlog, shortReads, sideVars>>

Next ==
    \/ ParseHeader
    \/ ParseStringsEnter
    \/ Submit
    \/ \E w \in 1..MaxWorkers : TaskRun(w)
    \/ \E w \in 1..MaxWorkers : TaskStore(w)
    \/ \E w \in 1..MaxWorkers : TaskRaise(w)
    \/ ParseStringsReturn
    \/ ParseTypes
    \/ ParseFields
    \/ ParseMethods
    \/ ParseClasses
    \/ MethodSkip
    \/ MethodEnter
    \/ WalkStep
    \/ WalkReturn
    \/ WriteOutput

Spec == Init /\ [][Next]_vars

----------------------------------------------------------------------------
(* One file decoded on its own: the try block of main (lines 370-381) run   *)
(* from start to end, the string tasks taken one after the other.           *)

\* Lines 298-316 as one call: [err, code].
RECURSIVE walk_loop(_, _, _, _, _, _, _)
walk_loop(data, insns_size_, insns_offset_, pc_, code_, ss, ms) ==
    IF ~walk_more(pc_, insns_size_) THEN [err |-> "", code |-> code_]
    ELSE LET r == walk_step(data, insns_offset_, pc_, code_, ss, ms)
         IN  IF r.err # "" THEN [err |-> r.err, code |-> << >>]
             ELSE walk_loop(data, insns_size_, insns_offset_, r.pc, r.code, ss, ms)

decompile_method_code(data, offset, ss, ms) ==
    IF offset = 0 THEN [err |-> "", code |-> << >>]
    ELSE LET p == method_prologue(data, offset)
         IN  IF p.err # "" THEN [err |-> p.err, code |-> << >>]
             ELSE walk_loop(data, p.insns_size, p.insns_offset, 0, << >>, ss, ms)

\* Lines 378-381: [err, decompiled], from the k-th class on.
RECURSIVE decompile_classes(_, _, _, _, _, _)
decompile_classes(data, cs, k, ss, ms, acc) ==
    IF k > Len(cs) THEN [err |-> "", decompiled |-> acc]
    ELSE LET r == decompile_method_code(data, cs[k].data_offset, ss, ms)
         IN  IF r.err # "" THEN [err |-> r.err, decompiled |-> << >>]
             ELSE decompile_classes(data, cs, k + 1, ss, ms,
                                    dict_set(acc, cs[k].name, r.code))

\* The strings parse_strings returns when every task has run: a task that
\* raised leaves None in its slot.
strings_of(data, offsets) ==
    [i \in 1..Len(offsets) |-> process_string(data, offsets, i - 1).s]

Failed(exc, at) == [err |-> exc, at |-> at, result |-> << >>]

\* [err, at, result]: the exception and the function that raised it, or the
\* items written to the output file.
Decode(data) ==
    LET h == parse_header(data)
    IN  IF h.err # "" THEN Failed(h.err, "parse_header") ELSE
    LET so == read_string_offsets(data, h.header)
    IN  IF so.err # "" THEN Failed(so.err, "parse_strings") ELSE
    LET ss == strings_of(data, so.offsets)
        ts == parse_types(data, h.header, ss)
    IN  IF ts.err # "" THEN Failed(ts.err, "parse_types") ELSE
    LET fs == parse_fields(data, h.header, ss, ts.v)
    IN  IF fs.err # "" THEN Failed(fs.err, "parse_fields") ELSE
    LET ms == parse_methods(data, h.header, ss, ts.v)
    IN  IF ms.err # "" THEN Failed(ms.err, "parse_methods") ELSE
    LET cs == parse_classes(data, h.header, ss, ts.v)
    IN  IF cs.err # "" THEN Failed(cs.err, "parse_classes") ELSE
    LET dc == decompile_classes(data, cs.v, 1, ss, ms.v, << >>)
    IN  IF dc.err # "" THEN Failed(dc.err, "decompile_method_code")
        ELSE [err |-> "", at |-> "", result |-> dc.decompiled]

----------------------------------------------------------------------------
(* The inputs of the varint specification. *)

\* The unsigned base-128 little-endian encoding of v (seven value bits per
\* byte, low group first, high bit set on every byte but the last).
RECURSIVE uleb_encode(_)
uleb_encode(v) ==
    IF v < 128 THEN <<v>> ELSE <<(v % 128) + 128>> \o uleb_encode(v \div 128)

\* Values of [0, 2^31): every combination of the groups 0, 1, 127 in the five
\* seven-bit positions (the top position holds three bits: 0, 1, 7).
Groups == {0, 1, 127}
TopGroups == {0, 1, 7}
TestValues ==
    { g[1] + 128 * g[2] + 16384 * g[3] + 2097152 * g[4] + 268435456 * t :
        g \in [1..4 -> Groups], t \in TopGroups }

\* What follows an encoding in its buffer: nothing, a final byte, or a byte
\* that is itself a continuation byte.
Tails == { << >>, <<0>>, <<255>> }

EncodedInputs ==
    { [data |-> Rep(255, p) \o uleb_encode(v) \o t, start |-> p, v |-> v] :
        p \in 0..MaxPad, v \in TestValues, t \in Tails }

\* Adversarial varints: k continuation bytes, then the end of the buffer or
\* a final byte (and one more byte).  Their value bits are all zero, so the
\* result stays inside TLC's integers however far the shift grows.
ContInputs ==
    { [data |-> Rep(255, p) \o Rep(128, k) \o t, start |-> p, v |-> 0] :
        p \in 0..MaxPad, k \in 1..MaxCont, t \in { << >>, <<0>>, <<0, 1>> } }

VarintInputs == EncodedInputs \cup ContInputs

----------------------------------------------------------------------------
(* The varint specification: read_uleb128 run on each input, one loop       *)
(* iteration per step.                                                      *)

InitVarint ==
    /\ \E i \in VarintInputs :
        /\ vdata = i.data
        /\ vstart = i.start
        /\ vs = uleb_start(i.start)
    /\ dex_files = << >>
    /\ file = 1
    /\ mainpc = "parse_header"
    /\ header = NoHeader
    /\ strings = << >>
    /\ types = << >>
    /\ fields = << >>
    /\ methods = << >>
    /\ classes = << >>
    /\ decompiled = << >>
    /\ cls = 0
    /\ string_offsets = << >>
    /\ max_workers = 0
    /\ submitted = 0
    /\ queue = << >>
    /\ running = << >>
    /\ insns_size = 0
    /\ insns_offset = 0
    /\ pc = 0
    /\ code = << >>
    /\ outputs = << >>
    /\ errlog = << >>
    /\ shortReads = {}
    /\ pipes = << >>

UlebIterate ==
    /\ vs.status = "run"
    /\ vs' = uleb_step(vdata, vs)
    /\ UNCHANGED <<vdata, vstart, mainVars, pipes>>

NextVarint == UlebIterate

SpecVarint == InitVarint /\ [][NextVarint]_vars

----------------------------------------------------------------------------
(* Two decodes side by side.  The functions of lines 50-137 and 298-316     *)
(* keep everything in parameters and locals; the only module-level object   *)
(* they read is OPCODE_MAP, which no statement assigns.  Two call chains    *)
(* parse_header .. decompile_method_code, each on its own buffer (the try   *)
(* body of lines 370-381 without the output file), are stepped in any       *)
(* order; the string tasks of each run one at a time in any order.          *)

\* The buffers the two call chains are given.
PairFiles == BatchFiles

\* The locals of a call chain that has not started.
PipeStart(d) ==
    [data |-> d, stage |-> "parse_header", err |-> "", at |-> "",
     header |-> NoHeader, offsets |-> << >>, pending |-> {},
     strings |-> << >>, types |-> << >>, fields |-> << >>, methods |-> << >>,
     classes |-> << >>, decompiled |-> << >>, cls |-> 0,
     insns_size |-> 0, insns_offset |-> 0, pc |-> 0, code |-> << >>]

\* The exception exc leaves the function `at` and ends the call chain.
PipeFail(r, exc, at_) == [r EXCEPT !.stage = "done", !.err = exc, !.at = at_]

\* Lines 74-78: the list a task of call chain p stores into is the `strings`
\* local of the parse_strings call that created the task.  A plausible slip:
\* one module-level list that every call fills.
slot_owner_shared(p) == 1

slot_owner(p) == p

MainUnused ==
    /\ dex_files = << >>
    /\ file = 1
    /\ mainpc = "parse_header"
    /\ header = NoHeader
    /\ strings = << >>
    /\ types = << >>
    /\ fields = << >>
    /\ methods = << >>
    /\ classes = << >>
    /\ decompiled = << >>
    /\ cls = 0
    /\ string_offsets = << >>
    /\ max_workers = 0
    /\ submitted = 0
    /\ queue = << >>
    /\ running = << >>
    /\ insns_size = 0
    /\ insns_offset = 0
    /\ pc = 0
    /\ code = << >>
    /\ outputs = << >>
    /\ errlog = << >>
    /\ shortReads = {}
    /\ vdata = << >>
    /\ vstart = 0
    /\ vs = uleb_start(0)

InitPair ==
    /\ \E d1 \in PairFiles, d2 \in PairFiles :
          pipes = << PipeStart(d1), PipeStart(d2) >>
    /\ MainUnused

\* Call chain p goes from r to its next locals; nothing else changes.
PipePut(p, r) ==
    /\ pipes' = [pipes EXCEPT ![p] = r]
    /\ UNCHANGED <<mainVars, varintVars>>

\* Line 370.
PipeHeader(p) ==
    /\ pipes[p].stage = "parse_header"
    /\ LET r == parse_header(pipes[p].data)
       IN  PipePut(p, IF r.err # "" THEN PipeFail(pipes[p], r.err, "parse_header")
                      ELSE [pipes[p] EXCEPT !.header = r.header,
                                            !.stage = "parse_strings"])

\* Lines 70-74 and 81: the offsets, the list of None, the tasks handed in.
PipeStringsEnter(p) ==
    /\ pipes[p].stage = "parse_strings"
    /\ LET r == read_string_offsets(pipes[p].data, pipes[p].header)
       IN  PipePut(p, IF r.err # "" THEN PipeFail(pipes[p], r.err, "parse_strings")
                      ELSE [pipes[p] EXCEPT
                              !.offsets = r.offsets,
                              !.strings = [i \in 1..Len(r.offsets) |-> None],
                              !.pending = { i - 1 : i \in 1..Len(r.offsets) },
                              !.stage = "map"])

\* Lines 76-78: one task of call chain p runs; what it decoded goes into the
\* list of its own call, and an exception stays in its future.
PipeTask(p, idx) ==
    /\ pipes[p].stage = "map"
    /\ idx \in pipes[p].pending
    /\ LET r == process_string(pipes[p].data, pipes[p].offsets, idx)
           q == slot_owner(p)
           stored == IF r.err # "" \/ idx + 1 \notin DOMAIN pipes[q].strings
                     THEN pipes
                     ELSE [pipes EXCEPT ![q].strings[idx + 1] = r.s]
       IN  pipes' = [stored EXCEPT ![p].pending = @ \ {idx}]
    /\ UNCHANGED <<mainVars, varintVars>>

\* Lines 80-83: the executor is joined and strings is returned.
PipeStringsReturn(p) ==
    /\ pipes[p].stage = "map"
    /\ pipes[p].pending = {}
    /\ PipePut(p, [pipes[p] EXCEPT !.stage = "parse_types"])

\* Line 372.
PipeTypes(p) ==
    /\ pipes[p].stage = "parse_types"
    /\ LET r == parse_types(pipes[p].data, pipes[p].header, pipes[p].strings)
       IN  PipePut(p, IF r.err # "" THEN PipeFail(pipes[p], r.err, "parse_types")
                      ELSE [pipes[p] EXCEPT !.types = r.v, !.stage = "parse_fields"])

\* Line 373.
PipeFields(p) ==
    /\ pipes[p].stage = "parse_fields"
    /\ LET r == parse_fields(pipes[p].data, pipes[p].header, pipes[p].strings,
                             pipes[p].types)
       IN  PipePut(p, IF r.err # "" THEN PipeFail(pipes[p], r.err, "parse_fields")
                      ELSE [pipes[p] EXCEPT !.fields = r.v, !.stage = "parse_methods"])

\* Line 374.
PipeMethods(p) ==
    /\ pipes[p].stage = "parse_methods"
    /\ LET r == parse_methods(pipes[p].data, pipes[p].header, pipes[p].strings,
                              pipes[p].types)
       IN  PipePut(p, IF r.err # "" THEN PipeFail(pipes[p], r.err, "parse_methods")
                      ELSE [pipes[p] EXCEPT !.methods = r.v, !.stage = "parse_classes"])

\* Lines 375-378.
PipeClasses(p) ==
    /\ pipes[p].stage = "parse_classes"
    /\ LET r == parse_classes(pipes[p].data, pipes[p].header, pipes[p].strings,
                              pipes[p].types)
       IN  PipePut(p, IF r.err # "" THEN PipeFail(pipes[p], r.err, "parse_classes")
                      ELSE [pipes[p] EXCEPT !.classes = r.v, !.decompiled = << >>,
                                            !.cls = 1, !.stage = "decompile"])

\* Lines 379-381 up to the walk: the next class, its prologue read; a class
\* without code gets the empty list at once; after the last class the call
\* chain is over.
PipeMethod(p) ==
    /\ pipes[p].stage = "decompile"
    /\ LET r == pipes[p]
       IN  IF r.cls > Len(r.classes)
           THEN PipePut(p, [r EXCEPT !.stage = "done"])
           ELSE IF r.classes[r.cls].data_offset = 0
           THEN PipePut(p, [r EXCEPT
                              !.decompiled = dict_set(@, r.classes[r.cls].name, << >>),
                              !.cls = @ + 1])
           ELSE LET m == method_prologue(r.data, r.classes[r.cls].data_offset)
                IN  PipePut(p, IF m.err # ""
                               THEN PipeFail(r, m.err, "decompile_method_code")
                               ELSE [r EXCEPT !.insns_size = m.insns_size,
                                              !.insns_offset = m.insns_offset,
                                              !.pc = 0, !.code = << >>,
                                              !.stage = "walk"])

\* Lines 306-316 and 381: one iteration of the walk, or its return.
PipeWalk(p) ==
    /\ pipes[p].stage = "walk"
    /\ LET r == pipes[p]
       IN  IF ~walk_more(r.pc, r.insns_size)
           THEN PipePut(p, [r EXCEPT
                              !.decompiled = dict_set(@, r.classes[r.cls].name, r.code),
                              !.cls = @ + 1, !.stage = "decompile",
                              !.insns_size = 0, !.insns_offset = 0,
                              !.pc = 0, !.code = << >>])
           ELSE LET w == walk_step(r.data, r.insns_offset, r.pc, r.code,
                                   r.strings, r.methods)
                IN  PipePut(p, IF w.err # ""
                               THEN PipeFail(r, w.err, "decompile_method_code")
                               ELSE [r EXCEPT !.pc = w.pc, !.code = w.code])

NextPair ==
    \/ \E p \in 1..2 : PipeHeader(p)
    \/ \E p \in 1..2 : PipeStringsEnter(p)
    \/ \E p \in 1..2 : \E idx \in 0..MaxStrings : PipeTask(p, idx)
    \/ \E p \in 1..2 : PipeStringsReturn(p)
    \/ \E p \in 1..2 : PipeTypes(p)
    \/ \E p \in 1..2 : PipeFields(p)
    \/ \E p \in 1..2 : PipeMethods(p)
    \/ \E p \in 1..2 : PipeClasses(p)
    \/ \E p \in 1..2 : PipeMethod(p)
    \/ \E p \in 1..2 : PipeWalk(p)

SpecPair == InitPair /\ [][NextPair]_vars

\* What a finished call chain hands back, in the shape of Decode.
PipeOutcome(r) ==
    IF r.err # "" THEN Failed(r.err, r.at)
    ELSE [err |-> "", at |-> "", result |-> r.decompiled]

----------------------------------------------------------------------------
(* What the claims speak of, read from the buffers and the two sinks        *)
(* without the decoder.                                                     *)

\* The entries of a log (outputs or errlog) for the i-th file.
EntriesOf(log, i) == SelectSeq(log, LAMBDA e : e.id = i)

\* The files whose turn in the loop is over.
Finished == { i \in 1..Len(dex_files) : i < file }

\* The first four bytes are not 'dex\n'.
BadMagic(d) == Len(d) < 4 \/ SubSeq(d, 1, 4) # <<100, 101, 120, 10>>

\* A little-endian unsigned field of w bytes at offset o of d, as carried.
RECURSIVE RawLE(_, _, _)
RawLE(d, o, w) ==
    IF w = 1 THEN (IF d[o + 1] >= 128 THEN d[o + 1] - 256 ELSE d[o + 1])
    ELSE d[o + 1] + 256 * RawLE(d, o + 1, w - 1)
Raw32(d, o) == RawLE(d, o, 4)

\* The header of d is whole and its magic is right.
HeaderWhole(d) == ~BadMagic(d) /\ Len(d) >= 104

\* The i-th (0..) class-def record of d lies inside d.
ClassRecordInside(d, i) ==
    /\ HeaderWhole(d)
    /\ Raw32(d, 96) > i
    /\ Raw32(d, 100) >= 0
    /\ Raw32(d, 100) + 32 * (i + 1) <= Len(d)

\* The k-th (0..7) field of the i-th class-def record of d.
ClassRecordField(d, i, k) == Raw32(d, Raw32(d, 100) + 32 * i + 4 * k)

\* An index field that is neither the absent mark nor inside a pool of n.
OutsidePool(idx, n) == idx # -1 /\ (idx < 0 \/ idx >= n)

----------------------------------------------------------------------------
(* Claims about the pipeline. *)

\* C1: a buffer whose first four bytes differ from 'dex\n' fails in
\* parse_header with the format error before any table is decoded (the main
\* thread never leaves parse_header for it), and nothing is written for it.
C1_BadMagicRejected ==
    \A i \in 1..Len(dex_files) :
        BadMagic(dex_files[i]) =>
            /\ (i = file => mainpc = "parse_header")
            /\ EntriesOf(outputs, i) = << >>
            /\ i \in Finished =>
                 EntriesOf(errlog, i) =
                    << [id |-> i, exc |-> "DexParseError", at |-> "parse_header"] >>

\* The second file of a batch was rejected for its magic after the first
\* file was decoded and written.
C1_Witness ==
    /\ Len(dex_files) >= 2
    /\ file > 2
    /\ BadMagic(dex_files[2])
    /\ EntriesOf(errlog, 2) # << >>
    /\ EntriesOf(outputs, 1) # << >>

\* C2: the context handed to a render function is the one its opcode's
\* operand-context kind fixes: the string table for string opcodes, the type
\* table for type opcodes, the field table for field opcodes, the method
\* table for invoke opcodes, a raw value for literal opcodes.
C2_ContextByKind ==
    \A k \in DOMAIN code :
        (~code[k].unknown /\ OPCODE_MAP[code[k].op].kind # "None") =>
            code[k].ctx = OPCODE_MAP[code[k].op].kind

\* C4: whenever a read of a buffer would extend past its end, the decode of
\* that buffer fails: nothing is written for it and its error is logged.
C4_ShortReadFails ==
    \A i \in shortReads :
        /\ EntriesOf(outputs, i) = << >>
        /\ i \in Finished => EntriesOf(errlog, i) # << >>

\* C5: in every class-def record that parse_classes decodes, a superclass
\* index of 0xFFFFFFFF gives an absent superclass and any other index i gives
\* TypePool[i]; an index outside the pool makes the decode fail with the
\* index error and is never read as absent.  The same holds of the
\* source-file index and the string pool.
C5_SentinelRule ==
    /\ (Running /\ mainpc \in {"decompile", "walk"}) =>
         /\ Len(classes) = Raw32(Data, 96)
         /\ \A k \in DOMAIN classes :
              LET sup == ClassRecordField(Data, k - 1, 2)
                  src == ClassRecordField(Data, k - 1, 4)
              IN  /\ ~OutsidePool(sup, Len(types))
                  /\ ~OutsidePool(src, Len(strings))
                  /\ classes[k].superclass =
                        IF sup = -1 THEN None ELSE types[sup + 1]
                  /\ classes[k].source_file =
                        IF src = -1 THEN None ELSE strings[src + 1]
    /\ \A i \in Finished :
         LET d == dex_files[i]
         IN  (\E r \in 0..(Len(d) \div 32) :
                 /\ ClassRecordInside(d, r)
                 /\ \/ OutsidePool(ClassRecordField(d, r, 2), Raw32(d, 64))
                    \/ OutsidePool(ClassRecordField(d, r, 4), Raw32(d, 56)))
             => /\ EntriesOf(outputs, i) = << >>
                /\ Len(EntriesOf(errlog, i)) = 1
                /\ EntriesOf(errlog, i)[1].at = "parse_classes"
                     => EntriesOf(errlog, i)[1].exc = "IndexError"

\* The first file failed in parse_classes on an index outside its pool; of
\* the second, a class without and a class with a superclass were decoded.
C5_Witness ==
    /\ file = 2 /\ Running /\ mainpc = "decompile"
    /\ EntriesOf(errlog, 1) = << [id |-> 1, exc |-> "IndexError", at |-> "parse_classes"] >>
    /\ \E k \in DOMAIN classes : classes[k].superclass = None
    /\ \E k \in DOMAIN classes : classes[k].superclass # None

\* C6: when parse_strings returns, every task has been submitted and has
\* completed, and entry i of the returned sequence is the string decoded at
\* the i-th string-ID offset (None where that decoding raised), whatever the
\* number of workers and the order in which the tasks ran.
C6_OrderPreserved ==
    (Running /\ mainpc = "parse_types") =>
        /\ queue = << >>
        /\ \A w \in DOMAIN running : ~running[w].busy
        /\ Len(strings) = Raw32(Data, 56)
        /\ \A i \in DOMAIN strings :
             strings[i] = read_string(Data, Raw32(Data, Raw32(Data, 60) + 4 * (i - 1))).s

\* Two workers, two strings, both decoded, and parse_strings has returned.
C6_Witness ==
    /\ Running /\ mainpc = "parse_types"
    /\ max_workers >= 2
    /\ Len(strings) >= 2
    /\ \A i \in DOMAIN strings : strings[i] # None
    /\ strings[1] # strings[2]

\* C7: in the walk, an opcode byte with no entry in the instruction table
\* appends exactly one placeholder line naming the opcode, advances pc by
\* exactly 2, raises nothing, and the walk goes on.
C7_UnknownOpcode ==
    [][ (/\ Running /\ mainpc = "walk"
         /\ walk_more(pc, insns_size)
         /\ insns_offset + pc < Len(Data)
         /\ Data[insns_offset + pc + 1] \notin DOMAIN OPCODE_MAP)
        => /\ code' = Append(code, [unknown |-> TRUE,
                                    op |-> Data[insns_offset + pc + 1],
                                    operand |-> 0, ctx |-> ""])
           /\ pc' = pc + 2
           /\ mainpc' = "walk"
           /\ errlog' = errlog
           /\ file' = file ]_vars

\* An unknown opcode was given its placeholder and the instruction after it
\* was rendered.
C7_Witness ==
    /\ Running /\ mainpc = "walk"
    /\ Len(code) = 2
    /\ code[1].unknown /\ ~code[2].unknown
    /\ pc = 4

\* C8: in a batch, a file whose decode raises gets its error logged under its
\* own identifier and no output, and every other file of the batch, before
\* or after it, gets exactly the outcome it has when decoded on its own; the
\* loop stops only past the last file.
C8_BatchIsolation ==
    /\ \A i \in Finished :
         LET d == Decode(dex_files[i])
         IN  IF d.err # ""
             THEN /\ EntriesOf(errlog, i) = << [id |-> i, exc |-> d.err, at |-> d.at] >>
                  /\ EntriesOf(outputs, i) = << >>
             ELSE /\ EntriesOf(outputs, i) = << [id |-> i, result |-> d.result] >>
                  /\ EntriesOf(errlog, i) = << >>
    /\ file <= Len(dex_files) + 1
    /\ Len(outputs) + Len(errlog) = file - 1

\* The first file of a batch failed and the second was decoded and written,
\* with the lines of a class.
C8_Witness ==
    /\ Len(dex_files) >= 2
    /\ file > Len(dex_files)
    /\ EntriesOf(errlog, 1) # << >>
    /\ \E k \in DOMAIN outputs :
         /\ outputs[k].id = 2
         /\ \E j \in DOMAIN outputs[k].result : outputs[k].result[j].lines # << >>

\* C10: the result of a decoded buffer holds one (class_name, lines) pair
\* for each class-def record, class_defs_size in all, and the pair of a
\* record whose class_data_off is 0 has no lines.
C10_OnePairPerClass ==
    \A k \in DOMAIN outputs :
        LET d == dex_files[outputs[k].id]
        IN  /\ Len(outputs[k].result) = Raw32(d, 96)
            /\ \A j \in DOMAIN outputs[k].result :
                 ClassRecordField(d, j - 1, 6) = 0 => outputs[k].result[j].lines = << >>

\* The code item at offset off of d is whole: its 16-byte prologue and the
\* 2n instruction bytes it declares lie inside d.
BodyInside(d, off) ==
    /\ off > 0
    /\ off + 16 <= Len(d)
    /\ Raw32(d, off + 12) >= 0
    /\ off + 16 + 2 * Raw32(d, off + 12) <= Len(d)

\* C12: the walk of a method body with a non-zero offset whose 2n
\* instruction bytes lie inside the buffer appends one line and advances pc
\* by 2 at every step, ends with exactly n lines, and never raises, whatever
\* opcodes the stream holds.
C12_ExactlyNLines ==
    /\ (Running /\ mainpc = "walk" /\ BodyInside(Data, insns_offset - 16)) =>
         /\ pc = 2 * Len(code)
         /\ Len(code) <= insns_size
         /\ ~walk_more(pc, insns_size) => Len(code) = insns_size
    /\ \A i \in Finished :
         LET d == dex_files[i]
             e == EntriesOf(errlog, i)
         IN  (e # << >> /\ e[1].at = "decompile_method_code") =>
                 \E r \in 0..(Len(d) \div 32) :
                     /\ ClassRecordInside(d, r)
                     /\ ClassRecordField(d, r, 6) # 0
                     /\ ~BodyInside(d, ClassRecordField(d, r, 6))

\* C13: when parse_strings has returned, no slot of the returned sequence is
\* left at None; and a buffer one of whose string tasks raises has its
\* failure raised by parse_strings.
C13_EverySlotFilled ==
    /\ (Running /\ mainpc = "parse_types") =>
         \A i \in DOMAIN strings : strings[i] # None
    /\ \A i \in Finished :
         LET d  == dex_files[i]
             so == read_string_offsets(d, parse_header(d).header)
         IN  (/\ HeaderWhole(d)
              /\ so.err = ""
              /\ \E k \in DOMAIN so.offsets : process_string(d, so.offsets, k - 1).err # "")
             => /\ EntriesOf(errlog, i) # << >>
                /\ EntriesOf(errlog, i)[1].at = "parse_strings"

\* C11: two decodes stepped in any order on two buffers: every step changes
\* the locals of one call chain only, the strings either holds after
\* parse_strings are those of its own buffer, and what each hands back is
\* exactly what decoding its buffer alone gives.  (OPCODE_MAP is a constant
\* of the module: no step assigns it.)
C11_NoCrossTalk ==
    /\ [](\A p \in DOMAIN pipes :
            /\ pipes[p].stage \notin {"parse_header", "parse_strings", "map", "done"}
                 => pipes[p].strings = strings_of(pipes[p].data, pipes[p].offsets)
            /\ pipes[p].stage = "done"
                 => PipeOutcome(pipes[p]) = Decode(pipes[p].data))
    /\ [][\A p \in DOMAIN pipes :
            pipes'[p] # pipes[p] =>
                \A q \in DOMAIN pipes \ {p} : pipes'[q] = pipes[q]]_vars

\* Both call chains are over, on different buffers: one handed back the
\* lines of a class, the other ended with an exception.
C11_Witness ==
    /\ Len(pipes) = 2
    /\ pipes[1].stage = "done" /\ pipes[2].stage = "done"
    /\ pipes[1].data # pipes[2].data
    /\ pipes[1].err = ""
    /\ \E j \in DOMAIN pipes[1].decompiled : pipes[1].decompiled[j].lines # << >>
    /\ Len(pipes[2].strings) >= 2
    /\ pipes[2].err # ""

----------------------------------------------------------------------------
(* Claims about read_uleb128. *)

\* The bytes of vdata from vstart that the call has consumed so far.
Consumed == vs.offset - vstart

\* vdata holds the encoding of v at vstart.
HoldsEncodingOf(v) ==
    Slice(vdata, vstart, Len(uleb_encode(v))) = uleb_encode(v)

FirstFiveContinue ==
    /\ Len(vdata) >= vstart + 5
    /\ \A k \in 1..5 : vdata[vstart + k] >= 128

\* C3: read_uleb128 never consumes more than 5 bytes; when the first 5 bytes
\* read all have their high bit set the call fails with MalformedVarint
\* instead of reading a sixth byte.
C3_FiveByteCap ==
    /\ Consumed <= 5
    /\ (FirstFiveContinue /\ Consumed >= 5) => vs.status = "MalformedVarint"

\* C9: for every v in [0, 2^31), decoding the base-128 little-endian encoding
\* of v returns v, and the returned offset is the start offset plus the
\* number of bytes of the encoding.
C9_RoundTrip ==
    \A v \in TestValues :
        (HoldsEncodingOf(v) /\ vs.status # "run") =>
            /\ vs.status = "ok"
            /\ vs.result = v
            /\ vs.offset = vstart + Len(uleb_encode(v))

\* A five-byte encoding (v >= 2^28) has been decoded from a non-zero offset.
C9_Witness ==
    /\ vs.status = "ok"
    /\ vstart > 0
    /\ vs.result >= 268435456
    /\ HoldsEncodingOf(vs.result)
    /\ Consumed = 5

====
